---------------------------- MODULE Spec2Model ----------------------------
(***************************************************************************)
(* A model of @probedjs/task-runner: a tree of tracked                     *)
(* asynchronous tasks, the completion promise of each task (performTask),  *)
(* the wait() promises a parent holds on its subtasks, and the Runner that *)
(* coalesces redraws, counts terminated roots and tears the session down.  *)
(*                                                                         *)
(* One action is one run-to-completion piece of JavaScript: a call of the  *)
(* public API made by an operation, the settlement of an operation, or one *)
(* promise continuation (a microtask).  The setImmediate callback and the  *)
(* start of a new event-loop tick happen only when no continuation is      *)
(* pending (Quiet), as in Node's event loop.                               *)
(***************************************************************************)
EXTENDS Naturals, Sequences, FiniteSets, TLC

\* Bound on the number of task nodes ever created (roots and subtasks).
MaxNodes == 3

\* Bound on the calls made in a task's context after its operation has
\* settled (a continuation the operation started and did not await).
MaxLate == 1

\* Bound on the update() calls the operations make of their own.
MaxUpdates == 2

\* Bounds of the programs that add subtasks to a task somebody is already
\* waiting for: their nodes and their calls made after the operation settled.
MaxWaitNodes == 4
MaxWaitLate == 2

\* Bound on the nodes of the programs that call update() (SpecStatus).
MaxStatusNodes == 2

\* Bound on the console calls the operations make.
MaxLogs == 2

\* Bound on the nodes of the programs that call all four console entry
\* points (SpecLog).
MaxLogNodes == 2

\* Bounds on the length of a message given to setMessage and on the
\* number of setMessage calls made on one task.
MaxMsgLen == 2
MaxMsgs == 3

\* Task identities: enough for the largest of the programs.
Nodes == 1..(IF MaxWaitNodes > MaxNodes THEN MaxWaitNodes ELSE MaxNodes)

\* The Status type.
Status == {"...", "done", "skip", "warn", "fail"}

statusStrength ==
  [s \in Status |->
     CASE s = "..."  -> 0
       [] s = "done" -> 1
       [] s = "warn" -> 2
       [] s = "fail" -> 3
       [] s = "skip" -> 4]

\* The console entry points the Runner replaces.
LogKinds == {"log", "info", "warn", "error"}

\* The statuses an operation passes to update({status}).
UserStatus == {"warn", "fail", "skip"}

\* Messages an operation passes to update({message}), and messages of the
\* errors an operation throws.
Msgs == {"m"}
ErrMsgs == {"boom"}

\* A string is a sequence of characters.  "ESC" stands for one ANSI
\* styling sequence, "ellipsis" for the character U+2026.
Chars == {"a", "b", "ESC"}

RECURSIVE StringsUpTo(_)
StringsUpTo(k) ==
  IF k = 0 THEN {<<>>}
  ELSE StringsUpTo(k - 1) \cup
         {Append(t, c) : t \in StringsUpTo(k - 1), c \in Chars}

\* The texts given to setMessage.
Texts == StringsUpTo(MaxMsgLen)

\* An error object: <<node whose code created it, how, its message>>.
NoErr == <<0, "none", "">>
OpError(n, m) == <<n, "thrown", m>>
ManualError(n, m) == <<n, "manual", m>>
ErrMessage(e) == e[3]

VARIABLES
  nNodes,          \* number of TaskState objects constructed so far
  parent,          \* parent[n]: the node whose subTasks holds n (0: a root)
  optional,        \* optional[n]: n was started by tryRun
  status,          \* info.status
  message,         \* info.message
  subTasks,        \* the subTasks array (node ids, creation order)
  opState,         \* the promise of the function given to run()
  opVal,           \*   its value: "result" or "undefined"
  opErr,           \*   its rejection reason
  pc,              \* where performTask stands: "op", "subs", "settled"
  snap,            \* the subtasks performTask's Promise.all waits for
  compState,       \* TaskState.completion
  compVal,
  compErr,
  wst,             \* wst[w][t]: the wait() call on t made on behalf of w
  wsnap,           \* wsnap[w][t]: the subtasks that wait() call waits for
  rootPc,          \* the top-level run() call of a root: "awaiting", "returned"
  activeRunner,    \* activeRunner !== undefined
  roots,           \* Runner._roots
  terminatedRoots, \* Runner._terminatedRoots
  rerender,        \* Runner._rerender: "none", "scheduled", "stale"
  backendDone,     \* the logUpdate session has been finalized (done())
  intercepted,     \* console.log/warn/error/info are the Runner's handlers
  tickPaints,      \* backend calls made in the current event-loop tick
  drained,         \* roots.length at the last allDone()
  lateLeft,        \* late calls still allowed by MaxLate
  updatesLeft,     \* update() calls still allowed by MaxUpdates
  statusBy,        \* history: which code wrote the current status
  maxWritten,      \* history: strongest status ever passed to setStatus
  innerErr,        \* history: the error the function given to tryRun threw
  failSet,         \* history: the running operation set the status to fail
  logs,            \* logs[n]: number of lines in the logs array of n
  logsLeft,        \* console calls still allowed by MaxLogs
  liveOut,         \* console calls made in a task that reached the original sink
  hostOut,         \* transcript lines <<n, k>> printed by printLogs, in order
  lostLines,       \* printLogs lines that went to an interceptor instead
  tdOrder,         \* history: the statements of the last allDone(), in order
  lastLog,         \* history: <<ambient task, entry point>> of the last console call
  savedOrig,       \* what Runner._consoleLog/_consoleErr/... refer to
  lastCtx,         \* history: ambient task of the last update() call (0: none)
  taskMessage,     \* Task._message of the earlier Task class (a string)
  taskMsgCount,    \* Task._msgCount
  msgsLeft,        \* addMessage calls still allowed by MaxMsgs
  msgPrev,         \* history: _message before the last addMessage call
  msgLast          \* history: the argument of the last addMessage call

nodeVars == <<nNodes, parent, optional, status, message, subTasks>>
opVars == <<opState, opVal, opErr>>
taskVars == <<pc, snap, compState, compVal, compErr>>
waitVars == <<wst, wsnap>>
runnerVars == <<activeRunner, roots, terminatedRoots, rerender, backendDone,
                intercepted, drained>>
histVars == <<statusBy, maxWritten, innerErr, failSet>>
ioVars == <<logs, logsLeft, liveOut, hostOut, lostLines, tdOrder, lastLog>>
msgVars == <<taskMessage, taskMsgCount, msgsLeft, msgPrev, msgLast>>
vars == <<nodeVars, opVars, taskVars, waitVars, rootPc, runnerVars,
          tickPaints, lateLeft, updatesLeft, histVars, ioVars, savedOrig,
          lastCtx, msgVars>>

---------------------------------------------------------------------------
\* Helpers

Kids(n) == {subTasks[n][i] : i \in 1..Len(subTasks[n])}
RootSet == {roots[i] : i \in 1..Len(roots)}
Created == 1..nNodes

Stronger(a, b) == IF statusStrength[b] > statusStrength[a] THEN b ELSE a

\* A setStatus that writes whatever it is given.
setStatus_overwrite(cur, s) == s

\* TaskState.setStatus: escalate only.
setStatus(cur, s) == IF statusStrength[s] > statusStrength[cur] THEN s ELSE cur

\* Runner.requestRerender: schedule one setImmediate unless a handle is held.
requestRerender(rr) == IF rr = "none" THEN "scheduled" ELSE rr

\* The outcome of the wait() call on t made on behalf of w.
RECURSIVE WaitOutcome(_, _)
WaitOutcome(w, t) ==
  IF wst[w][t] = "await"
  THEN IF compState[t] = "rejected" THEN "rej" ELSE "pending"
  ELSE IF wst[w][t] = "subs"
  THEN IF \E c \in wsnap[w][t] : WaitOutcome(w, c) = "rej" THEN "rej"
       ELSE IF \A c \in wsnap[w][t] : WaitOutcome(w, c) = "ok" THEN "ok"
       ELSE "pending"
  ELSE "pending"

\* The rejection reasons that wait() call can carry.
RECURSIVE WaitErrs(_, _)
WaitErrs(w, t) ==
  IF wst[w][t] = "await"
  THEN IF compState[t] = "rejected" THEN {compErr[t]} ELSE {}
  ELSE IF wst[w][t] = "subs"
  THEN UNION {WaitErrs(w, c) : c \in wsnap[w][t]}
  ELSE {}

\* Promise.all over the wait() calls of performTask(n).
SubsOutcome(n) ==
  IF \E c \in snap[n] : WaitOutcome(n, c) = "rej" THEN "rej"
  ELSE IF \A c \in snap[n] : WaitOutcome(n, c) = "ok" THEN "ok"
  ELSE "pending"
SubsErrs(n) == UNION {WaitErrs(n, c) : c \in snap[n]}

\* No promise continuation is pending: the microtask queue is empty.
Quiet ==
  /\ \A n \in Created : ~(pc[n] = "op" /\ opState[n] \in {"resolved", "rejected"})
  /\ \A n \in Created : ~(pc[n] = "subs" /\ SubsOutcome(n) # "pending")
  /\ \A w \in Created : \A t \in Created :
        ~(wst[w][t] = "await" /\ compState[t] = "resolved")
  /\ \A r \in Created : ~(rootPc[r] = "awaiting" /\ compState[r] # "pending")

\* currentTask.getStore() can be n: its operation is running, or a
\* continuation the operation left behind is.
InCtx(n) ==
  /\ Quiet
  /\ n \in Created
  /\ \/ opState[n] = "running"
     \/ lateLeft > 0
UseCtx(n) ==
  lateLeft' = IF opState[n] = "running" THEN lateLeft ELSE lateLeft - 1

InitExcept(late) ==
  /\ nNodes = 0
  /\ parent = [n \in Nodes |-> 0]
  /\ optional = [n \in Nodes |-> FALSE]
  /\ status = [n \in Nodes |-> "..."]
  /\ message = [n \in Nodes |-> ""]
  /\ subTasks = [n \in Nodes |-> <<>>]
  /\ opState = [n \in Nodes |-> "none"]
  /\ opVal = [n \in Nodes |-> "none"]
  /\ opErr = [n \in Nodes |-> NoErr]
  /\ pc = [n \in Nodes |-> "none"]
  /\ snap = [n \in Nodes |-> {}]
  /\ compState = [n \in Nodes |-> "pending"]
  /\ compVal = [n \in Nodes |-> "none"]
  /\ compErr = [n \in Nodes |-> NoErr]
  /\ wst = [w \in Nodes |-> [t \in Nodes |-> "none"]]
  /\ wsnap = [w \in Nodes |-> [t \in Nodes |-> {}]]
  /\ rootPc = [n \in Nodes |-> "none"]
  /\ activeRunner = FALSE
  /\ roots = <<>>
  /\ terminatedRoots = 0
  /\ rerender = "none"
  /\ backendDone = FALSE
  /\ intercepted = FALSE
  /\ tickPaints = 0
  /\ drained = 0
  /\ lateLeft = late
  /\ updatesLeft = MaxUpdates
  /\ statusBy = [n \in Nodes |-> "init"]
  /\ maxWritten = [n \in Nodes |-> "..."]
  /\ innerErr = [n \in Nodes |-> NoErr]
  /\ failSet = [n \in Nodes |-> FALSE]
  /\ logs = [n \in Nodes |-> 0]
  /\ logsLeft = MaxLogs
  /\ liveOut = 0
  /\ hostOut = <<>>
  /\ lostLines = 0
  /\ tdOrder = <<>>
  /\ lastLog = <<0, "none">>
  /\ savedOrig = "none"
  /\ lastCtx = 0
  /\ taskMessage = <<>>
  /\ taskMsgCount = 0
  /\ msgsLeft = MaxMsgs
  /\ msgPrev = <<>>
  /\ msgLast = <<>>

Init == InitExcept(MaxLate)


---------------------------------------------------------------------------
\* TaskState

\* An updateInfo that also escalates the status of the node's parent.
WriteStatus_andParent(n, s, tag) ==
  /\ status' = [m \in Nodes |->
                  IF m \in {n, parent[n]} THEN setStatus(status[m], s)
                  ELSE status[m]]
  /\ statusBy' = [m \in Nodes |->
                    IF m \in {n, parent[n]} /\ setStatus(status[m], s) # status[m]
                    THEN tag ELSE statusBy[m]]
  /\ maxWritten' = [m \in Nodes |->
                      IF m \in {n, parent[n]} THEN Stronger(maxWritten[m], s)
                      ELSE maxWritten[m]]

\* updateInfo({status: s}) on node n by the code named tag.
WriteStatus(n, s, tag) ==
  /\ status' = [status EXCEPT ![n] = setStatus(@, s)]
  /\ statusBy' = [statusBy EXCEPT
                    ![n] = IF setStatus(status[n], s) # status[n] THEN tag ELSE @]
  /\ maxWritten' = [maxWritten EXCEPT ![n] = Stronger(@, s)]

\* A catch block that keeps a message the node already has.
catchMessage_keep(old, e) == IF old = "" THEN ErrMessage(e) ELSE old

\* The message performTask's catch block stores: e.message replaces it.
catchMessage(old, e) == ErrMessage(e)

\* A performTask without the check for a status set to fail by hand.
manualFail_never(st) == FALSE

\* performTask's check after the subtasks: the status was set to fail by hand.
manualFail(st) == st = "fail"

\* An update() that reports done without looking for pending subtasks.
update_ignorePending(cur, kids) ==
  IF kids = {} THEN cur
  ELSE IF "fail" \in kids THEN setStatus(cur, "fail")
  ELSE IF "warn" \in kids THEN setStatus(cur, "warn")
  ELSE setStatus(cur, "done")

\* TaskState.update: aggregate the subtasks' statuses into the node's own.
\* kids is the set of the subtasks' statuses (empty: no subtask).
update(cur, kids) ==
  IF kids = {} THEN cur
  ELSE IF "fail" \in kids THEN setStatus(cur, "fail")
  ELSE IF "warn" \in kids THEN setStatus(cur, "warn")
  ELSE IF "..." \notin kids THEN setStatus(cur, "done")
  ELSE cur

\* The status update() passes to updateInfo, "" when it calls nothing.
updateArg(kids) ==
  IF kids = {} THEN ""
  ELSE IF "fail" \in kids THEN "fail"
  ELSE IF "warn" \in kids THEN "warn"
  ELSE IF "..." \notin kids THEN "done"
  ELSE ""

KidStatuses(n) == {status[c] : c \in Kids(n)}

\* this._roots.forEach((r) => r.update()): only the roots are updated.
UpdateRoots ==
  /\ status' = [n \in Nodes |->
                  IF n \in RootSet THEN update(status[n], KidStatuses(n))
                  ELSE status[n]]
  /\ statusBy' = [n \in Nodes |->
                    IF n \in RootSet /\ update(status[n], KidStatuses(n)) # status[n]
                    THEN "update" ELSE statusBy[n]]
  /\ maxWritten' = [n \in Nodes |->
                      IF n \in RootSet /\ updateArg(KidStatuses(n)) # ""
                      THEN Stronger(maxWritten[n], updateArg(KidStatuses(n)))
                      ELSE maxWritten[n]]
RootsCallUpdateInfo == \E r \in RootSet : updateArg(KidStatuses(r)) # ""

\* new TaskState(...): the constructor starts performTask, which starts the
\* operation with the node as the ambient task.
NewTask(n, p, opt) ==
  /\ nNodes' = n
  /\ parent' = [parent EXCEPT ![n] = p]
  /\ optional' = [optional EXCEPT ![n] = opt]
  /\ opState' = [opState EXCEPT ![n] = "running"]
  /\ pc' = [pc EXCEPT ![n] = "op"]
  /\ UNCHANGED <<status, message, opVal, opErr, snap, compState, compVal,
                 compErr, waitVars, histVars>>

\* A run() that constructs a Runner for every top-level call.
needRunner_always(active) == TRUE

\* run(): if (!activeRunner) activeRunner = new Runner().
needRunner(active) == ~active

\* run() / tryRun() called with no ambient task: a root.  A new Runner
\* saves the console entry points as they are, installs its interceptors
\* and opens a logUpdate session.
RunRoot(opt) ==
  /\ Quiet
  /\ nNodes + 1 \in Nodes
  /\ NewTask(nNodes + 1, 0, opt)
  /\ activeRunner' = TRUE
  /\ roots' = Append(IF needRunner(activeRunner) THEN <<>> ELSE roots,
                     nNodes + 1)
  /\ terminatedRoots' = IF needRunner(activeRunner) THEN 0 ELSE terminatedRoots
  /\ rerender' = IF needRunner(activeRunner) THEN "none" ELSE rerender
  /\ backendDone' = IF needRunner(activeRunner) THEN FALSE ELSE backendDone
  /\ intercepted' = IF needRunner(activeRunner) THEN TRUE ELSE intercepted
  /\ rootPc' = [rootPc EXCEPT ![nNodes + 1] = "awaiting"]
  /\ savedOrig' = IF needRunner(activeRunner)
                  THEN IF intercepted THEN "interceptor" ELSE "original"
                  ELSE savedOrig
  /\ UNCHANGED <<subTasks, drained, tickPaints, lateLeft, updatesLeft, ioVars,
                 lastCtx, msgVars>>

\* run() / tryRun() called with ambient task p: a subtask of p.
RunChild(p, opt) ==
  /\ InCtx(p)
  /\ nNodes + 1 \in Nodes
  /\ NewTask(nNodes + 1, p, opt)
  /\ subTasks' = [subTasks EXCEPT ![p] = Append(@, nNodes + 1)]
  /\ rerender' = requestRerender(rerender)
  /\ UseCtx(p)
  /\ UNCHANGED <<rootPc, activeRunner, roots, terminatedRoots, backendDone,
                 intercepted, drained, tickPaints, updatesLeft, ioVars,
                 savedOrig, msgVars, lastCtx>>

\* update({status: s}) called with ambient task p.
SetStatus(p, s) ==
  /\ InCtx(p)
  /\ updatesLeft > 0
  /\ updatesLeft' = updatesLeft - 1
  /\ WriteStatus(p, s, "user")
  /\ failSet' = [failSet EXCEPT
                   ![p] = @ \/ (s = "fail" /\ opState[p] = "running"
                                  /\ setStatus(status[p], s) = "fail")]
  /\ rerender' = requestRerender(rerender)
  /\ UseCtx(p)
  /\ UNCHANGED <<nNodes, parent, optional, message, subTasks, opVars, taskVars,
                 waitVars, rootPc, activeRunner, roots, terminatedRoots,
                 backendDone, intercepted, drained, tickPaints, innerErr,
                 ioVars, savedOrig, msgVars>>

\* update({message: m}) called with ambient task p.
SetMessage(p, m) ==
  /\ InCtx(p)
  /\ updatesLeft > 0
  /\ updatesLeft' = updatesLeft - 1
  /\ message' = [message EXCEPT ![p] = m]
  /\ rerender' = requestRerender(rerender)
  /\ UseCtx(p)
  /\ UNCHANGED <<nNodes, parent, optional, status, subTasks, opVars, taskVars,
                 waitVars, rootPc, activeRunner, roots, terminatedRoots,
                 backendDone, intercepted, drained, tickPaints, histVars,
                 ioVars, savedOrig, msgVars>>

\* update(info) called with no ambient task: currentTask.getStore() is
\* undefined and nothing is done.
UpdateOutside ==
  /\ Quiet
  /\ updatesLeft > 0
  /\ updatesLeft' = updatesLeft - 1
  /\ lastCtx' = 0
  /\ UNCHANGED <<nodeVars, opVars, taskVars, waitVars, rootPc, runnerVars,
                 tickPaints, lateLeft, histVars, ioVars, savedOrig, msgVars>>

\* stripAnsi: the text without its styling sequences.
stripAnsi(msg) == SelectSeq(msg, LAMBDA c : c # "ESC")

\* commonLen: the loop stops at the first index where a and b differ, or
\* at the end of the shorter.
RECURSIVE commonLenFrom(_, _, _)
commonLenFrom(a, b, result) ==
  IF result < (IF Len(a) < Len(b) THEN Len(a) ELSE Len(b))
     /\ a[result + 1] = b[result + 1]
  THEN commonLenFrom(a, b, result + 1)
  ELSE result
commonLen(a, b) == commonLenFrom(a, b, 0)

\* The decimal text of a message count (counts stay below 10 here).
countText(count) == <<ToString(count)>>

\* combineStrings: `${a.slice(0, commonLen(a, b))} ... [${count}]`, the
\* three dots being the one character U+2026.
combineStrings(a, b, count) ==
  SubSeq(a, 1, commonLen(a, b))
    \o <<" ", "ellipsis", " ", "[">> \o countText(count) \o <<"]">>

\* Task.addMessage of the earlier Task class, which setMessage calls on
\* the ambient task.
addMessage(msg) ==
  /\ msgsLeft > 0
  /\ msgsLeft' = msgsLeft - 1
  /\ msgPrev' = taskMessage
  /\ msgLast' = msg
  /\ taskMsgCount' = taskMsgCount + 1
  /\ IF Len(taskMessage) = 0
     THEN /\ taskMessage' = stripAnsi(msg)
          /\ rerender' = rerender
     ELSE /\ taskMessage' =
               combineStrings(taskMessage, stripAnsi(msg), taskMsgCount + 1)
          /\ rerender' = requestRerender(rerender)
  /\ UNCHANGED <<nodeVars, opVars, taskVars, waitVars, rootPc, activeRunner,
                 roots, terminatedRoots, backendDone, intercepted, drained,
                 tickPaints, lateLeft, updatesLeft, histVars, ioVars,
                 savedOrig, lastCtx>>

\* The operation of n returns.
OpResolve(n) ==
  /\ Quiet
  /\ n \in Created
  /\ opState[n] = "running"
  /\ opState' = [opState EXCEPT ![n] = "resolved"]
  /\ opVal' = [opVal EXCEPT ![n] = "result"]
  /\ UNCHANGED <<nodeVars, opErr, taskVars, waitVars, rootPc, runnerVars,
                 tickPaints, lateLeft, updatesLeft, histVars, ioVars,
                 savedOrig, msgVars, lastCtx>>

\* The completion handles the operation of n can hold and await: those of
\* its own subtasks and of its siblings.
Awaitable(n) ==
  Kids(n) \cup (IF parent[n] = 0 THEN {} ELSE Kids(parent[n]) \ {n})

\* The errors the operation of n can throw: its own, or the rejection of a
\* handle it awaited and did not catch.
Throwable(n) ==
  {OpError(n, m) : m \in ErrMsgs}
    \cup {compErr[c] : c \in {d \in Awaitable(n) : compState[d] = "rejected"}}

\* The operation of n throws e.  Under tryRun the wrapper catches it:
\* update({status: 'skip', message: e.message}), and returns undefined.
OpThrow(n, e) ==
  /\ Quiet
  /\ n \in Created
  /\ opState[n] = "running"
  /\ e \in Throwable(n)
  /\ IF optional[n]
     THEN /\ WriteStatus(n, "skip", "tryRun")
          /\ message' = [message EXCEPT ![n] = ErrMessage(e)]
          /\ rerender' = requestRerender(rerender)
          /\ opState' = [opState EXCEPT ![n] = "resolved"]
          /\ opVal' = [opVal EXCEPT ![n] = "undefined"]
          /\ innerErr' = [innerErr EXCEPT ![n] = e]
          /\ UNCHANGED <<opErr, failSet>>
     ELSE /\ opState' = [opState EXCEPT ![n] = "rejected"]
          /\ opErr' = [opErr EXCEPT ![n] = e]
          /\ UNCHANGED <<status, message, rerender, opVal, histVars>>
  /\ UNCHANGED <<nNodes, parent, optional, subTasks, taskVars, waitVars, rootPc,
                 activeRunner, roots, terminatedRoots, backendDone, intercepted,
                 drained, tickPaints, lateLeft, updatesLeft, ioVars, savedOrig,
                 msgVars, lastCtx>>

\* performTask's catch block for node n and reason e.
Catch(n, e) ==
  /\ WriteStatus(n, "fail", "completion")
  /\ message' = [message EXCEPT ![n] = catchMessage(@, e)]
  /\ rerender' = requestRerender(rerender)
  /\ compState' = [compState EXCEPT ![n] = "rejected"]
  /\ compErr' = [compErr EXCEPT ![n] = e]
  /\ pc' = [pc EXCEPT ![n] = "settled"]
  /\ UNCHANGED <<compVal, snap, waitVars>>

\* performTask resumes after `await currentTask.run(owner, task)`.
Continue(n) ==
  /\ n \in Created
  /\ pc[n] = "op"
  /\ opState[n] \in {"resolved", "rejected"}
  /\ IF opState[n] = "resolved"
     THEN /\ snap' = [snap EXCEPT ![n] = Kids(n)]
          /\ wst' = [wst EXCEPT ![n] =
                       [t \in Nodes |-> IF t \in Kids(n) THEN "await" ELSE @[t]]]
          /\ pc' = [pc EXCEPT ![n] = "subs"]
          /\ UNCHANGED <<status, message, rerender, compState, compVal, compErr,
                         wsnap, histVars>>
     ELSE /\ Catch(n, opErr[n])
          /\ UNCHANGED <<innerErr, failSet>>
  /\ UNCHANGED <<nNodes, parent, optional, subTasks, opVars, rootPc,
                 activeRunner, roots, terminatedRoots, backendDone, intercepted,
                 drained, tickPaints, lateLeft, updatesLeft, ioVars, savedOrig,
                 msgVars, lastCtx>>

\* A wait() call resumes after `await this.completion` resolved: it takes
\* the subtasks of t as they are now and waits for each.
WaitSnapshot(w, t) ==
  /\ w \in Created /\ t \in Created
  /\ wst[w][t] = "await"
  /\ compState[t] = "resolved"
  /\ wsnap' = [wsnap EXCEPT ![w][t] = Kids(t)]
  /\ wst' = [wst EXCEPT ![w] =
               [u \in Nodes |-> IF u = t THEN "subs"
                                ELSE IF u \in Kids(t) THEN "await" ELSE @[u]]]
  /\ UNCHANGED <<nodeVars, opVars, taskVars, rootPc, runnerVars, tickPaints,
                 lateLeft, updatesLeft, histVars, ioVars, savedOrig, msgVars,
                 lastCtx>>

\* performTask resumes after `await Promise.all(...)`.
Complete(n) ==
  /\ n \in Created
  /\ pc[n] = "subs"
  /\ SubsOutcome(n) # "pending"
  /\ IF SubsOutcome(n) = "rej"
     THEN \E e \in SubsErrs(n) : Catch(n, e)
     ELSE IF manualFail(status[n])
     THEN Catch(n, ManualError(n, message[n]))
     ELSE /\ WriteStatus(n, "done", "completion")
          /\ rerender' = requestRerender(rerender)
          /\ compState' = [compState EXCEPT ![n] = "resolved"]
          /\ compVal' = [compVal EXCEPT ![n] = opVal[n]]
          /\ pc' = [pc EXCEPT ![n] = "settled"]
          /\ UNCHANGED <<message, compErr, snap, waitVars>>
  /\ UNCHANGED <<nNodes, parent, optional, subTasks, opVars, rootPc,
                 activeRunner, roots, terminatedRoots, backendDone, intercepted,
                 drained, tickPaints, lateLeft, updatesLeft,
                 innerErr, failSet, ioVars, savedOrig, msgVars, lastCtx>>

---------------------------------------------------------------------------
\* Runner

\* The lines printLogs prints for n itself: a header (line 0) and the
\* captured lines, or nothing when no line was captured.
OwnLines(n) ==
  IF logs[n] > 0
  THEN <<<<n, 0>>>> \o [k \in 1..logs[n] |-> <<n, k>>]
  ELSE <<>>

RECURSIVE printLogs(_), printAll(_)

\* for (const t of tasks) t.printLogs()
printAll(tasks) ==
  IF tasks = <<>> THEN <<>>
  ELSE printLogs(Head(tasks)) \o printAll(Tail(tasks))

\* A printLogs that prints the subtasks before the node's own lines.
printLogs_subTasksFirst(n) == printAll(subTasks[n]) \o OwnLines(n)

\* TaskState.printLogs: the node's own lines, then each subtask's.
printLogs(n) == OwnLines(n) \o printAll(subTasks[n])

\* An allDone that prints the transcripts before it restores the console.
allDoneSteps_printFirst ==
  <<"clearImmediate", "update", "render", "printLogs", "done", "restore">>

\* The statements of Runner.allDone, in order.
allDoneSteps ==
  <<"clearImmediate", "update", "render", "done", "restore", "printLogs">>

StepIndex(steps, name) == CHOOSE i \in 1..Len(steps) : steps[i] = name

\* The console entry points are the interceptors when step `name` runs.
InterceptedAt(name) ==
  intercepted /\ ~(StepIndex(allDoneSteps, "restore") < StepIndex(allDoneSteps, name))

\* The interceptors installed by the Runner constructor (console.log,
\* console.info, console.warn, console.error) called with ambient task p;
\* after allDone the entry points are the saved originals again.
Log(p, kind) ==
  /\ InCtx(p)
  /\ logsLeft > 0
  /\ logsLeft' = logsLeft - 1
  /\ lastLog' = <<p, kind>>
  /\ IF intercepted
     THEN /\ logs' = [logs EXCEPT ![p] = @ + 1]
          /\ liveOut' = liveOut
          /\ IF kind \in {"warn", "error"}
             THEN /\ WriteStatus(p, IF kind = "warn" THEN "warn" ELSE "fail",
                                 "console")
                  /\ rerender' = requestRerender(rerender)
                  /\ failSet' = [failSet EXCEPT
                                   ![p] = @ \/ (kind = "error"
                                                  /\ opState[p] = "running"
                                                  /\ setStatus(status[p], "fail") = "fail")]
             ELSE UNCHANGED <<status, statusBy, maxWritten, rerender, failSet>>
     ELSE /\ liveOut' = liveOut + 1
          /\ UNCHANGED <<logs, status, statusBy, maxWritten, rerender, failSet>>
  /\ UseCtx(p)
  /\ UNCHANGED <<nNodes, parent, optional, message, subTasks, opVars, taskVars,
                 waitVars, rootPc, activeRunner, roots, terminatedRoots,
                 backendDone, intercepted, drained, tickPaints, updatesLeft,
                 innerErr, hostOut, lostLines, tdOrder, savedOrig, msgVars,
                 lastCtx>>

\* Runner.allDone.
allDone ==
  /\ UpdateRoots
  /\ tdOrder' = allDoneSteps
  /\ IF InterceptedAt("printLogs")
     THEN /\ lostLines' = lostLines + Len(printAll(roots))
          /\ hostOut' = hostOut
     ELSE /\ hostOut' = hostOut \o printAll(roots)
          /\ lostLines' = lostLines
  /\ rerender' =
       LET cleared == IF rerender = "none" THEN "none" ELSE "stale"
       IN IF RootsCallUpdateInfo THEN requestRerender(cleared) ELSE cleared
  /\ backendDone' = TRUE
  /\ intercepted' = (savedOrig = "interceptor")
  /\ drained' = Len(roots)
  /\ tickPaints' = IF tickPaints < 2 THEN tickPaints + 1 ELSE 2

\* The top-level run() resumes after `await result`: finally rootDone().
RootSettle(r) ==
  /\ r \in Created
  /\ rootPc[r] = "awaiting"
  /\ compState[r] # "pending"
  /\ rootPc' = [rootPc EXCEPT ![r] = "returned"]
  /\ terminatedRoots' = terminatedRoots + 1
  /\ IF terminatedRoots + 1 = Len(roots)
     THEN allDone
     ELSE UNCHANGED <<status, statusBy, maxWritten, rerender, backendDone,
                     intercepted, drained, tickPaints, hostOut, lostLines,
                     tdOrder>>
  /\ UNCHANGED <<nNodes, parent, optional, message, subTasks, opVars, taskVars,
                 waitVars, activeRunner, roots, lateLeft, updatesLeft,
                 innerErr, failSet, logs, logsLeft, liveOut, lastLog,
                 savedOrig, msgVars, lastCtx>>

\* The setImmediate callback of requestRerender.  It is an event-loop task
\* of its own: it paints once, nothing else runs in its tick, and the step
\* ends with the next tick begun.
PaintCallback ==
  /\ Quiet
  /\ rerender = "scheduled"
  /\ UpdateRoots
  /\ rerender' = "none"
  /\ tickPaints' = 0
  /\ UNCHANGED <<nNodes, parent, optional, message, subTasks, opVars, taskVars,
                 waitVars, rootPc, activeRunner, roots, terminatedRoots,
                 backendDone, intercepted, drained, lateLeft, updatesLeft,
                 innerErr, failSet, ioVars, savedOrig, msgVars, lastCtx>>

\* The event loop starts its next task.
Tick ==
  /\ Quiet
  /\ tickPaints > 0
  /\ tickPaints' = 0
  /\ UNCHANGED <<nodeVars, opVars, taskVars, waitVars, rootPc, runnerVars,
                 lateLeft, updatesLeft, histVars, ioVars, savedOrig, msgVars,
                 lastCtx>>

\* Programs whose operations start subtasks, return or throw, over several
\* sessions, and make no update() call of their own.
Next ==
  \/ \E opt \in BOOLEAN : nNodes < MaxNodes /\ RunRoot(opt)
  \/ \E p \in Nodes : \E opt \in BOOLEAN : nNodes < MaxNodes /\ RunChild(p, opt)
  \/ \E n \in Nodes : OpResolve(n)
  \/ \E n \in Nodes : \E e \in Throwable(n) : OpThrow(n, e)
  \/ \E n \in Nodes : Continue(n)
  \/ \E w \in Nodes : \E t \in Nodes : WaitSnapshot(w, t)
  \/ \E n \in Nodes : Complete(n)
  \/ \E r \in Nodes : RootSettle(r)
  \/ PaintCallback
  \/ Tick

Spec == Init /\ [][Next]_vars

\* Programs of one root and at most MaxStatusNodes nodes, all started by
\* run(), whose operations also call update({status}) and update({message}).
NextStatus ==
  \/ nNodes = 0 /\ RunRoot(FALSE)
  \/ \E p \in Nodes : nNodes < MaxStatusNodes /\ RunChild(p, FALSE)
  \/ \E p \in Nodes : \E s \in UserStatus :
       SetStatus(p, s) /\ UNCHANGED lastCtx
  \/ \E p \in Nodes : \E m \in Msgs : SetMessage(p, m) /\ UNCHANGED lastCtx
  \/ \E n \in Nodes : OpResolve(n)
  \/ \E n \in Nodes : \E e \in Throwable(n) : OpThrow(n, e)
  \/ \E n \in Nodes : Continue(n)
  \/ \E w \in Nodes : \E t \in Nodes : WaitSnapshot(w, t)
  \/ \E n \in Nodes : Complete(n)
  \/ \E r \in Nodes : RootSettle(r)
  \/ PaintCallback

SpecStatus == Init /\ [][NextStatus]_vars

\* Programs of one root whose subtasks (all started by the root's
\* operation) call update({status}), return or throw: the trees update()
\* aggregates.
NextAggregate ==
  \/ nNodes = 0 /\ RunRoot(FALSE)
  \/ \E p \in Nodes :
       /\ nNodes < MaxNodes /\ parent[p] = 0 /\ opState[p] = "running"
       /\ RunChild(p, FALSE)
  \/ \E p \in Nodes : \E s \in UserStatus :
       opState[p] = "running" /\ SetStatus(p, s) /\ UNCHANGED lastCtx
  \/ \E n \in Nodes : OpResolve(n)
  \/ \E n \in Nodes : \E e \in Throwable(n) : OpThrow(n, e)
  \/ \E n \in Nodes : Continue(n)
  \/ \E w \in Nodes : \E t \in Nodes : WaitSnapshot(w, t)
  \/ \E n \in Nodes : Complete(n)
  \/ \E r \in Nodes : RootSettle(r)
  \/ PaintCallback

SpecAggregate == Init /\ [][NextAggregate]_vars

\* Programs of at most MaxLogNodes nodes whose operations, while they run,
\* call console.log/info/warn/error, start subtasks, return or throw, over
\* several sessions.
NextLog ==
  \/ nNodes < MaxLogNodes /\ RunRoot(FALSE)
  \/ \E p \in Nodes :
       nNodes < MaxLogNodes /\ opState[p] = "running" /\ RunChild(p, FALSE)
  \/ \E p \in Nodes : \E kind \in LogKinds :
       opState[p] = "running" /\ Log(p, kind)
  \/ \E n \in Nodes : OpResolve(n)
  \/ \E n \in Nodes : \E e \in Throwable(n) : OpThrow(n, e)
  \/ \E n \in Nodes : Continue(n)
  \/ \E w \in Nodes : \E t \in Nodes : WaitSnapshot(w, t)
  \/ \E n \in Nodes : Complete(n)
  \/ \E r \in Nodes : RootSettle(r)
  \/ PaintCallback

SpecLog == Init /\ [][NextLog]_vars

\* Programs whose operations call console.log, start subtasks and return,
\* in any order, over several roots and sessions: the transcripts printed.
NextTranscript ==
  \/ nNodes < MaxNodes /\ RunRoot(FALSE)
  \/ \E p \in Nodes :
       nNodes < MaxNodes /\ opState[p] = "running" /\ RunChild(p, FALSE)
  \/ \E p \in Nodes : opState[p] = "running" /\ Log(p, "log")
  \/ \E n \in Nodes : OpResolve(n)
  \/ \E n \in Nodes : Continue(n)
  \/ \E w \in Nodes : \E t \in Nodes : WaitSnapshot(w, t)
  \/ \E n \in Nodes : Complete(n)
  \/ \E r \in Nodes : RootSettle(r)
  \/ PaintCallback

SpecTranscript == Init /\ [][NextTranscript]_vars

\* Programs of one session whose operations start subtasks and return,
\* and leave a continuation behind that starts a subtask after the
\* operation has returned but before the node has settled.
NextDynamic ==
  \/ nNodes = 0 /\ RunRoot(FALSE)
  \/ \E p \in Nodes :
       nNodes < MaxNodes /\ pc[p] # "settled" /\ RunChild(p, FALSE)
  \/ \E n \in Nodes : OpResolve(n)
  \/ \E n \in Nodes : Continue(n)
  \/ \E w \in Nodes : \E t \in Nodes : WaitSnapshot(w, t)
  \/ \E n \in Nodes : Complete(n)
  \/ \E r \in Nodes : RootSettle(r)
  \/ PaintCallback

SpecDynamic == Init /\ [][NextDynamic]_vars

\* Programs of one root and at most MaxStatusNodes nodes whose operations
\* call update({status}) and update({message}) and return, together with
\* update() calls made outside every tracked operation.
NextUpdate ==
  \/ nNodes = 0 /\ RunRoot(FALSE)
  \/ \E p \in Nodes : nNodes < MaxStatusNodes /\ RunChild(p, FALSE)
  \/ \E p \in Nodes : \E s \in UserStatus : SetStatus(p, s) /\ lastCtx' = p
  \/ \E p \in Nodes : \E m \in Msgs : SetMessage(p, m) /\ lastCtx' = p
  \/ UpdateOutside
  \/ \E n \in Nodes : OpResolve(n)
  \/ \E n \in Nodes : Continue(n)
  \/ \E w \in Nodes : \E t \in Nodes : WaitSnapshot(w, t)
  \/ \E n \in Nodes : Complete(n)
  \/ \E r \in Nodes : RootSettle(r)
  \/ PaintCallback

SpecUpdate == Init /\ [][NextUpdate]_vars

\* Sequences of at most MaxMsgs setMessage calls on one task, with every
\* text of at most MaxMsgLen characters, and the redraws they schedule.
NextMessage ==
  \/ \E msg \in Texts : addMessage(msg)
  \/ PaintCallback

SpecMessage == Init /\ [][NextMessage]_vars

\* Programs of one root whose operations, at any depth of the tree, start
\* subtasks, call update({status}) and return.
NextDeep ==
  \/ nNodes = 0 /\ RunRoot(FALSE)
  \/ \E p \in Nodes :
       nNodes < MaxNodes /\ opState[p] = "running" /\ RunChild(p, FALSE)
  \/ \E p \in Nodes : \E s \in UserStatus :
       opState[p] = "running" /\ SetStatus(p, s) /\ UNCHANGED lastCtx
  \/ \E n \in Nodes : OpResolve(n)
  \/ \E n \in Nodes : Continue(n)
  \/ \E w \in Nodes : \E t \in Nodes : WaitSnapshot(w, t)
  \/ \E n \in Nodes : Complete(n)
  \/ \E r \in Nodes : RootSettle(r)
  \/ PaintCallback

SpecDeep == Init /\ [][NextDeep]_vars

\* Programs of one root with one subtask, in which continuations left
\* behind by the subtask's operation add subtasks to it after it settled,
\* while the root waits for it.
InitWait == InitExcept(MaxWaitLate)

NextWait ==
  \/ nNodes = 0 /\ RunRoot(FALSE)
  \/ \E p \in Nodes :
       /\ nNodes < MaxWaitNodes
       /\ parent[p] = 0 => nNodes = 1
       /\ RunChild(p, FALSE)
  \/ \E n \in Nodes : OpResolve(n)
  \/ \E n \in Nodes : Continue(n)
  \/ \E w \in Nodes : \E t \in Nodes : WaitSnapshot(w, t)
  \/ \E n \in Nodes : Complete(n)
  \/ \E r \in Nodes : RootSettle(r)
  \/ PaintCallback

SpecWait == InitWait /\ [][NextWait]_vars

---------------------------------------------------------------------------
\* Claims

RECURSIVE Descendants(_)
Descendants(n) == Kids(n) \cup UNION {Descendants(c) : c \in Kids(n)}

Rank(s) == statusStrength[s]

\* performTask(n) settles in this step.
Settles(n) == pc[n] # "settled" /\ pc'[n] = "settled"

\* The backend is called in this step: by the setImmediate callback or by
\* allDone.
PaintStep == (rerender = "scheduled" /\ rerender' = "none") \/ drained' # drained

\* C1: teardown (allDone) starts only when every root and every descendant
\* node has settled: no task is still running at that moment.
C1_TeardownAfterAllSettled ==
  [][drained' # drained =>
       \A n \in Created : pc[n] = "settled" /\ opState[n] # "running"]_vars

\* C2: no step reports a node as done (on completion or by aggregation
\* in a paint) while its own operation has not settled successfully or
\* while a node below it has not settled.
C2_DoneMeansSettled ==
  [][\A n \in Nodes :
       (status[n] # "done" /\ status'[n] = "done") =>
         /\ opState[n] = "resolved"
         /\ \A d \in Descendants(n) : pc[d] = "settled"]_vars

\* C3: the completion handle of a task resolves with the operation's own
\* result when the operation resolved and rejects with the operation's own
\* error when it rejected, whatever its descendants did.
C3_HandleFollowsOperation ==
  \A n \in Created :
    pc[n] = "settled" =>
      /\ opState[n] = "resolved" =>
           compState[n] = "resolved" /\ compVal[n] = opVal[n]
      /\ opState[n] = "rejected" =>
           compState[n] = "rejected" /\ compErr[n] = opErr[n]

\* C4: when the operation given to tryRun rejects with message m, the
\* handle resolves with undefined and the node ends with status skip and
\* message m.
C4_OptionalNeverRejects ==
  \A n \in Created :
    (optional[n] /\ innerErr[n] # NoErr /\ pc[n] = "settled") =>
      /\ compState[n] = "resolved"
      /\ compVal[n] = "undefined"
      /\ status[n] = "skip"
      /\ message[n] = ErrMessage(innerErr[n])

C7_StatusMonotonic ==
  /\ [](\A n \in Nodes : status[n] = maxWritten[n])
  /\ [][\A n \in Nodes : Rank(status'[n]) >= Rank(status[n])]_vars

\* C7 witness: an operation set its status to warn and returned; the done
\* written on completion did not replace the warn.
C7_Witness ==
  \E n \in Created :
    /\ status[n] = "warn" /\ statusBy[n] = "user"
    /\ pc[n] = "settled" /\ compState[n] = "resolved"

\* The aggregate of C8, stated on the ranks: the strongest of the node's
\* status and fail / warn / done as the subtasks' statuses say.
C8_Expected(cur, kids) ==
  LET agg == IF kids = {} THEN cur
             ELSE IF "fail" \in kids THEN "fail"
             ELSE IF "warn" \in kids THEN "warn"
             ELSE IF "..." \in kids THEN cur
             ELSE "done"
  IN IF Rank(agg) > Rank(cur) THEN agg ELSE cur

\* C8: each paint leaves every root with the aggregate of its status and
\* its subtasks' statuses: fail if a subtask is fail, else warn if one is
\* warn, else done if none is pending, else unchanged; unchanged without
\* subtasks.  {done, warn} gives warn, {done, fail} gives fail, and
\* {pending, done} leaves a pending root pending.
C8_Aggregation ==
  [][PaintStep =>
       \A r \in RootSet :
         /\ status'[r] = C8_Expected(status[r], KidStatuses(r))
         /\ (KidStatuses(r) = {"done", "warn"} /\ Rank(status[r]) < 2)
              => status'[r] = "warn"
         /\ (KidStatuses(r) = {"done", "fail"} /\ Rank(status[r]) < 3)
              => status'[r] = "fail"
         /\ (KidStatuses(r) = {"...", "done"} /\ status[r] = "...")
              => status'[r] = "..."
         /\ Kids(r) = {} => status'[r] = status[r]]_vars

\* C8 witness: a root whose two subtasks are done and warn was painted warn
\* by aggregation while its own operation was still running.
C8_Witness ==
  \E r \in RootSet :
    /\ KidStatuses(r) = {"done", "warn"}
    /\ status[r] = "warn" /\ statusBy[r] = "update"
    /\ opState[r] = "running"

\* C9: the backend is called at most once per event-loop tick.
C9_OnePaintPerTick == tickPaints <= 1

\* C10: a root that is still running belongs to a fresh runner: a runner
\* whose terminal session is open, whose console handlers are installed,
\* which has not been torn down and holds no cancelled redraw handle.
C10_FreshRunner ==
  (\E r \in RootSet : rootPc[r] = "awaiting") =>
    /\ ~backendDone
    /\ intercepted
    /\ drained = 0
    /\ rerender # "stale"

\* C11: a console.log/info/warn/error call made with a node as the ambient
\* task, in any session and at any moment, is appended to that node's logs
\* and does not reach the original sink; warn escalates the node's status
\* to warn, error to fail.
C11_ConsoleCaptured ==
  [][logsLeft' # logsLeft =>
       LET p == lastLog'[1]
           kind == lastLog'[2]
       IN /\ logs'[p] = logs[p] + 1
          /\ liveOut' = liveOut
          /\ kind = "warn" => status'[p] = Stronger(status[p], "warn")
          /\ kind = "error" => status'[p] = Stronger(status[p], "fail")]_vars

\* C11 in a later session: every task of the drained session has settled,
\* the root of a new session is running, and its console call reached the
\* original sink instead of its logs.
C11_LaterSession ==
  \E r \in RootSet :
    /\ drained >= 1
    /\ rootPc[r] = "awaiting" /\ opState[r] = "running"
    /\ \A n \in Created \ {r} : pc[n] = "settled"
    /\ lastLog[1] = r
    /\ liveOut > 0
    /\ logs[r] = 0

\* The number of lines printLogs prints for the trees of all roots.
PrintedLines ==
  LET F[S \in SUBSET Nodes] ==
        IF S = {} THEN 0
        ELSE LET n == CHOOSE x \in S : TRUE
             IN (IF logs[n] > 0 THEN logs[n] + 1 ELSE 0) + F[S \ {n}]
  IN F[RootSet \cup UNION {Descendants(r) : r \in RootSet}]

\* C12: each teardown, whether the last root resolved or rejected, leaves
\* the console entry points the saved originals; it restores them after
\* the final paint and before printLogs, so every transcript line reaches
\* the original sink.
C12_ConsoleRestored ==
  /\ [](savedOrig # "interceptor")
  /\ [][drained' # drained =>
          /\ ~intercepted'
          /\ StepIndex(tdOrder', "render") < StepIndex(tdOrder', "restore")
          /\ StepIndex(tdOrder', "restore") < StepIndex(tdOrder', "printLogs")
          /\ lostLines' = lostLines
          /\ Len(hostOut') = Len(hostOut) + PrintedLines]_vars

\* C12 witness: the only root rejected, teardown ran in the first session
\* with the interceptors installed, and captured lines were printed.
C12_Witness ==
  /\ drained = 1
  /\ compState[roots[1]] = "rejected"
  /\ ~intercepted
  /\ logs[roots[1]] > 0
  /\ Len(hostOut) = PrintedLines
  /\ lostLines = 0

\* n and the nodes above it.
RECURSIVE AncSelf(_)
AncSelf(n) == IF parent[n] = 0 THEN {n} ELSE {n} \cup AncSelf(parent[n])

\* Depth-first order in creation order, stated on the tree: a comes before
\* b when a is above b, or when the branches to a and to b part at two
\* siblings (or two roots) of which a's was created first.
Before(a, b) ==
  \/ a # b /\ a \in AncSelf(b)
  \/ \E x \in AncSelf(a) : \E y \in AncSelf(b) :
        x < y /\ parent[x] = parent[y]

LineBefore(l1, l2) ==
  IF l1[1] = l2[1] THEN l1[2] < l2[2] ELSE Before(l1[1], l2[1])

\* C13: each teardown prints the transcripts root by root in registration
\* order and, within a root, depth-first in creation order, each node's
\* header and lines in capture order, in whatever order the roots and
\* subtasks settled; a node without captured lines prints nothing.
C13_TranscriptOrder ==
  [][drained' # drained =>
       LET seg == SubSeq(hostOut', Len(hostOut) + 1, Len(hostOut'))
           tree == RootSet \cup UNION {Descendants(r) : r \in RootSet}
       IN /\ \A i \in 1..Len(seg) : \A j \in 1..Len(seg) :
               i < j => LineBefore(seg[i], seg[j])
          /\ {seg[i] : i \in 1..Len(seg)} =
               {l \in tree \X (0..MaxLogs) : logs[l[1]] > 0 /\ l[2] <= logs[l[1]]}]_vars

\* C13 witness: root 1 has subtask 3, created after root 2; node 3 made the
\* last console call; the transcript lists node 3 before root 2, and
\* nothing for root 1, which captured no line.
C13_Witness ==
  /\ parent[2] = 0 /\ parent[3] = 1
  /\ lastLog[1] = 3
  /\ hostOut = <<<<3, 0>>, <<3, 1>>, <<2, 0>>, <<2, 1>>>>

\* n was started in its parent's context after the parent's operation had
\* returned: performTask's Promise.all of the parent does not wait for it.
DynamicChild(n) ==
  /\ n \in Created
  /\ parent[n] # 0
  /\ opState[parent[n]] = "resolved"
  /\ pc[parent[n]] # "op"
  /\ n \notin snap[parent[n]]

\* C14: a subtask started after its parent's operation has returned, and
\* before the parent has settled, has settled when teardown makes the
\* final paint and prints the transcripts.
C14_DynamicChildrenSettled ==
  [][drained' # drained =>
       \A n \in Nodes : DynamicChild(n) => pc[n] = "settled"]_vars

\* C15: a top-level run made while a runner exists appends the new root to
\* that runner's roots, in call order, and constructs no second runner
\* (nothing the constructor sets changes); the console entry points a
\* runner saved are never interceptors.
C15_OneRunner ==
  /\ [](savedOrig # "interceptor")
  /\ [][(roots' # roots /\ activeRunner) =>
          /\ roots' = Append(roots, nNodes + 1)
          /\ nNodes' = nNodes + 1
          /\ savedOrig' = savedOrig
          /\ intercepted' = intercepted
          /\ backendDone' = backendDone
          /\ terminatedRoots' = terminatedRoots
          /\ rerender' = rerender]_vars

\* C15 witness: a second top-level run was made while the first root was
\* still running; both are roots of the one runner, in call order.
C15_Witness ==
  /\ roots = <<1, 2>>
  /\ rootPc[1] = "awaiting" /\ opState[1] = "running"
  /\ rootPc[2] = "awaiting"
  /\ intercepted /\ savedOrig = "original" /\ drained = 0

\* C16: update() called with no ambient task changes nothing: no node's
\* status, message or logs, no runner, no root, no settled count, no
\* redraw; called with an ambient task it changes the status and message
\* of that node only.
C16_UpdateFrame ==
  [][updatesLeft' # updatesLeft =>
       IF lastCtx' = 0
       THEN UNCHANGED <<nodeVars, logs, activeRunner, roots, terminatedRoots,
                        rerender, backendDone, intercepted, savedOrig>>
       ELSE /\ \A n \in Nodes \ {lastCtx'} :
                 /\ status'[n] = status[n]
                 /\ message'[n] = message[n]
                 /\ logs'[n] = logs[n]
            /\ UNCHANGED <<nNodes, subTasks, roots, terminatedRoots>>]_vars

\* C16 witness: a subtask raised its own status by update() while its
\* parent stayed pending, and the last update() call, made outside every
\* operation while both were running, changed nothing.
C16_Witness ==
  \E n \in Created :
    /\ parent[n] # 0
    /\ status[n] = "warn" /\ statusBy[n] = "user"
    /\ status[parent[n]] = "..."
    /\ opState[n] = "running" /\ opState[parent[n]] = "running"
    /\ lastCtx = 0 /\ updatesLeft = 0

IsPrefix(p, t) == Len(p) <= Len(t) /\ \A i \in 1..Len(p) : p[i] = t[i]

\* The longest string that is a prefix of both a and b.
LongestCommonPrefix(a, b) ==
  CHOOSE p \in {SubSeq(a, 1, k) : k \in 0..Len(a)} :
    /\ IsPrefix(p, b)
    /\ \A k \in 0..Len(a) : IsPrefix(SubSeq(a, 1, k), b) => k <= Len(p)

\* The ellipsis marker with the running count k.
Marker(k) == <<" ", "ellipsis", " ", "[", ToString(k), "]">>

\* C17: the first setMessage call on a task stores its text (styling
\* stripped) as it is; the k-th call, k >= 2, stores the longest common
\* prefix of the stored message and the new text, followed by the
\* ellipsis marker and the count k; for all texts, the empty one included.
C17_MessageCompression ==
  [][taskMsgCount' # taskMsgCount =>
       /\ taskMsgCount' = MaxMsgs - msgsLeft'
       /\ IF taskMsgCount' = 1
          THEN taskMessage' = stripAnsi(msgLast')
          ELSE taskMessage' =
                 LongestCommonPrefix(taskMessage, stripAnsi(msgLast'))
                   \o Marker(taskMsgCount')]_vars

\* C17 for texts that are not empty once stripped: three calls with texts
\* sharing the prefix "a" store that prefix with the count 3.
C17_NonEmptyTexts ==
  /\ taskMsgCount = 3
  /\ msgPrev = <<"a", " ", "ellipsis", " ", "[", "2", "]">>
  /\ msgLast = <<"a", "b">>
  /\ taskMessage = <<"a", " ", "ellipsis", " ", "[", "3", "]">>

\* C18: in every painted frame every node that has subtasks, at any depth,
\* is at least fail when one of its subtasks is fail and at least warn
\* when one is warn.
C18_WholeTreeAggregated ==
  [][PaintStep =>
       \A n \in Created :
         /\ (\E c \in Kids(n) : status'[c] = "fail") => Rank(status'[n]) >= Rank("fail")
         /\ (\E c \in Kids(n) : status'[c] = "warn") => Rank(status'[n]) >= Rank("warn")]_vars

\* C18 at the roots: a warn raised by a subtask of a root is in the root
\* after the paint, by aggregation.
C18_RootAggregated ==
  \E r \in RootSet :
    /\ \E c \in Kids(r) : status[c] = "warn" /\ statusBy[c] = "user"
    /\ status[r] = "warn" /\ statusBy[r] = "update"

\* C19: whenever a wait() on a task resolves, the task's operation has
\* settled and the wait() of every subtask the task has at that moment
\* has resolved.
C19_WaitCoversLiveChildren ==
  [][\A w \in Created : \A t \in Created :
       (WaitOutcome(w, t) # "ok" /\ WaitOutcome(w, t)' = "ok") =>
          /\ opState'[t] \in {"resolved", "rejected"}
          /\ \A c \in Nodes :
                parent'[c] = t /\ c <= nNodes' => WaitOutcome(w, c)' = "ok"]_vars

\* C19 for the subtasks the task had when its wait() looked: a wait()
\* resolved for a task with subtasks, each of them waited for.
C19_SnapshotWaited ==
  \E w \in Created : \E t \in Created :
    /\ WaitOutcome(w, t) = "ok"
    /\ Kids(t) # {}
    /\ wsnap[w][t] = Kids(t)
    /\ \A c \in Kids(t) : WaitOutcome(w, c) = "ok"

\* C20: every step that changes a status, a message or a subtask list,
\* other than a paint or a teardown, leaves a paint callback scheduled;
\* no request is lost to a handle kept for a callback that was cancelled.
C20_NoRequestLost ==
  [][(/\ \/ subTasks' # subTasks
         \/ status' # status
         \/ message' # message
      /\ terminatedRoots' = terminatedRoots
      /\ ~(rerender = "scheduled" /\ rerender' = "none"))
       => rerender' = "scheduled"]_vars

\* C20 inside a session: a subtask was created, its request scheduled a
\* paint, and the session is still open.
C20_PaintScheduled ==
  /\ rerender = "scheduled"
  /\ terminatedRoots = 0
  /\ \E n \in Created : Kids(n) # {}

\* C21: no frame is painted on a backend session that done() has
\* finalized: every paint, by the redraw callback or by a teardown, is made
\* by a runner whose session is still open.
C21_NoPaintAfterDone ==
  [][PaintStep => ~backendDone]_vars

\* C21 for the calls made after the teardown: the session is finalized, a
\* subtask was started under a settled task after that, and no paint
\* callback is scheduled for it.
C21_LateCallNotPainted ==
  /\ backendDone
  /\ drained = Len(roots)
  /\ rerender = "stale"
  /\ \E n \in Created :
       /\ parent[n] # 0
       /\ opState[n] = "running"
       /\ pc[parent[n]] = "settled"

\* The captured lines of all nodes, and the number of times the restored
\* console printed one of them.
CapturedLines == UNION {{<<n, k>> : k \in 1..logs[n]} : n \in Created}
Occurrences(line) == Cardinality({i \in 1..Len(hostOut) : hostOut[i] = line})

\* C22: no captured line is printed to the restored console twice, and
\* once every top-level run has returned each captured line has been
\* printed exactly once.
C22_EachLineOnce ==
  /\ \A l \in CapturedLines : Occurrences(l) <= 1
  /\ (roots # <<>> /\ terminatedRoots = Len(roots)) =>
        \A l \in CapturedLines : Occurrences(l) = 1

\* C22 at the first teardown: a root and its subtask both captured lines
\* and the teardown printed each of them once.
C22_FirstTeardownOnce ==
  /\ drained = 1 /\ Len(roots) = 1
  /\ logs[roots[1]] > 0
  /\ \E c \in Kids(roots[1]) : logs[c] > 0
  /\ \A l \in CapturedLines : Occurrences(l) = 1

=============================================================================
